---- MODULE Spec2Model ----
(***************************************************************************)
(* etcddump: dump every key of an etcd store to a directory tree, decoding *)
(* each value through the ouger_server subprocess (src/src/main.rs).       *)
(*                                                                         *)
(* Keys and paths are byte strings, modelled as sequences of byte values.  *)
(* A resolved filesystem location is a sequence of component names, the    *)
(* empty sequence being the root directory.                                *)
(***************************************************************************)
EXTENDS Integers, Sequences, FiniteSets, TLC

\* ------------------------------------------------------------------ bounds
\* most keys the store holds when the run starts
MaxKeys == 2
\* longest key the path derivation is applied to (SpecPath)
MaxKeyLen == 5
\* largest open-file limit, and most calls of the limit raise (SpecLimit)
MaxLimit == 9
MaxLimitCalls == 2

\* ------------------------------------------------------------------- bytes
\* '/', the pattern of trim_start_matches and the path separator
Slash == 47
\* '.', the byte the components "." and ".." are made of
Dot == 46
\* first byte value that is not ASCII; 0xFF below never occurs in UTF-8
AsciiLimit == 128

\* the bytes keys are made of: '.', '/', 'a', 'b' and the invalid byte 0xFF
KeyBytes == {46, 47, 97, 98, 255}

\* --output-dir as given on the command line: "/o", an existing directory
OutputDir == <<47, 111>>

\* the values the store holds, and the marker of a key that holds none
Values == {"X", "Y"}
NoValue == "absent"

\* what ouger_server answers to a decode request for payload v
OugerDecode(v) == <<"decoded", v>>

\* ------------------------------------------------------- string operations
\* str::trim_start_matches(pat): strips every leading occurrence of pat
\* variant that strips at most one leading occurrence
TrimOneLeading(s, c) == IF Len(s) > 0 /\ s[1] = c THEN Tail(s) ELSE s

RECURSIVE TrimStartMatches(_, _)
TrimStartMatches(s, c) ==
    IF Len(s) > 0 /\ s[1] = c THEN TrimStartMatches(Tail(s), c) ELSE s

\* Path::join: an absolute argument replaces the base, otherwise it is
\* appended, with a separator unless the base is empty or ends with one
PathJoin(base, rel) ==
    IF Len(rel) > 0 /\ rel[1] = Slash THEN rel
    ELSE IF Len(base) = 0 \/ base[Len(base)] = Slash THEN base \o rel
    ELSE base \o <<Slash>> \o rel

\* output_dir.join(key.trim_start_matches('/'))
OutputFile(key) == PathJoin(OutputDir, TrimStartMatches(key, Slash))

\* the byte strings between separators, empty ones included
RECURSIVE SplitSlash(_, _)
SplitSlash(s, cur) ==
    IF Len(s) = 0 THEN <<cur>>
    ELSE IF s[1] = Slash THEN <<cur>> \o SplitSlash(Tail(s), <<>>)
    ELSE SplitSlash(Tail(s), Append(cur, s[1]))

DotName == <<Dot>>
DotDotName == <<Dot, Dot>>

\* Path::components of an absolute path: empty and "." components dropped
Components(p) ==
    SelectSeq(SplitSlash(p, <<>>), LAMBDA c : c # <<>> /\ c # DotName)

\* Path::parent on components: the path without its last component
ParentComps(cs) == IF Len(cs) = 0 THEN cs ELSE SubSeq(cs, 1, Len(cs) - 1)

\* key_str(): a key converts to a string only if it is valid UTF-8; over
\* KeyBytes that is: every byte is ASCII
\* variant that converts every key, whatever its bytes
KeyStrOkLossy(k) == TRUE

KeyStrOk(k) == \A i \in 1..Len(k) : k[i] < AsciiLimit

\* byte-wise lexicographic order, the order the store lists keys in
RECURSIVE LexLess(_, _)
LexLess(a, b) ==
    IF Len(b) = 0 THEN FALSE
    ELSE IF Len(a) = 0 THEN TRUE
    ELSE IF a[1] # b[1] THEN a[1] < b[1]
    ELSE LexLess(Tail(a), Tail(b))

RECURSIVE SortedKeys(_)
SortedKeys(S) ==
    IF S = {} THEN <<>>
    ELSE LET m == CHOOSE x \in S : \A y \in S \ {x} : LexLess(x, y)
         IN  <<m>> \o SortedKeys(S \ {m})

\* ------------------------------------------------------------- filesystem
\* fs = [dirs |-> set of locations, files |-> function location -> content]
IsDir(fs, loc) == loc \in fs.dirs
IsFile(fs, loc) == loc \in DOMAIN fs.files

\* kernel path walk over components: the location reached, or the error
RECURSIVE Walk(_, _, _)
Walk(fs, loc, cs) ==
    IF ~IsDir(fs, loc)
    THEN [err |-> IF IsFile(fs, loc) THEN "ENOTDIR" ELSE "ENOENT", loc |-> loc]
    ELSE IF Len(cs) = 0 THEN [err |-> "none", loc |-> loc]
    ELSE IF cs[1] = DotName THEN Walk(fs, loc, Tail(cs))
    ELSE IF cs[1] = DotDotName THEN Walk(fs, ParentComps(loc), Tail(cs))
    ELSE Walk(fs, Append(loc, cs[1]), Tail(cs))

\* is_dir(): the path resolves to a directory
PathIsDir(fs, cs) == Walk(fs, <<>>, cs).err = "none"

\* mkdir(2) of the path with components cs
Mkdir(fs, cs) ==
    IF Len(cs) = 0 THEN [err |-> "EEXIST", fs |-> fs]
    ELSE LET w == Walk(fs, <<>>, ParentComps(cs))
             last == cs[Len(cs)]
             target == Append(w.loc, last)
         IN  IF w.err # "none" THEN [err |-> w.err, fs |-> fs]
             ELSE IF last = DotDotName \/ IsDir(fs, target) \/ IsFile(fs, target)
             THEN [err |-> "EEXIST", fs |-> fs]
             ELSE [err |-> "none", fs |-> [fs EXCEPT !.dirs = @ \cup {target}]]

\* std::fs::create_dir_all: mkdir, on NotFound create the parent first
RECURSIVE CreateDirAll(_, _)
CreateDirAll(fs, cs) ==
    LET m == Mkdir(fs, cs)
    IN  IF m.err = "none" THEN m
        ELSE IF m.err # "ENOENT"
        THEN IF PathIsDir(fs, cs) THEN [err |-> "none", fs |-> fs] ELSE m
        ELSE IF Len(cs) = 0 THEN [err |-> "ENOENT", fs |-> fs]
        ELSE LET p == CreateDirAll(fs, ParentComps(cs))
             IN  IF p.err # "none" THEN p
                 ELSE LET m2 == Mkdir(p.fs, cs)
                      IN  IF m2.err = "none" THEN m2
                          ELSE IF PathIsDir(p.fs, cs)
                          THEN [err |-> "none", fs |-> p.fs]
                          ELSE [err |-> m2.err, fs |-> p.fs]

\* the components the kernel walks: only empty ones dropped
KernelComps(p) == SelectSeq(SplitSlash(p, <<>>), LAMBDA c : c # <<>>)

\* std::fs::write: open(path, O_WRONLY|O_CREAT|O_TRUNC) and write content
FsWrite(fs, path, content) ==
    LET cs == KernelComps(path)
        trailing == Len(path) > 0 /\ path[Len(path)] = Slash
        w == Walk(fs, <<>>, ParentComps(cs))
        last == cs[Len(cs)]
        target == Append(w.loc, last)
    IN  IF Len(cs) = 0 THEN [err |-> "EISDIR", fs |-> fs]
        ELSE IF w.err # "none" THEN [err |-> w.err, fs |-> fs]
        ELSE IF last \in {DotName, DotDotName} \/ IsDir(fs, target) \/ trailing
        THEN [err |-> "EISDIR", fs |-> fs]
        ELSE [err |-> "none",
              fs |-> [fs EXCEPT !.files =
                        [l \in DOMAIN fs.files \cup {target} |->
                            IF l = target THEN content ELSE fs.files[l]]]]

\* ------------------------------------------------------------------ state
VARIABLES
    pc,             \* where main / main_internal stands
    result,         \* what main_internal returned: "none" while it runs
    ouger_command,  \* the ouger_server child: NotStarted, SpawnFailed, Running, Stopped
    killRes,        \* outcome of ouger_command.kill(): "none" until invoked
    etcd,           \* the store: key -> value or NoValue
    calls,          \* store calls issued by the orchestrator: connect, list
    get_response,   \* keys of the prefix listing, raw bytes, in store order
    tasks,          \* the spawned get_key tasks, in spawn order
    fs,             \* the filesystem
    pathKey,        \* SpecPath: the key the path derivation is applied to
    pathOut,        \* SpecPath: the destination path derived from pathKey
    limits          \* SpecLimit: RLIMIT_NOFILE at the start and after each call

vars == <<pc, result, ouger_command, killRes, etcd, calls, get_response,
          tasks, fs, pathKey, pathOut, limits>>

\* "/a", "//a", "/a/a", "/b", "/", "/../a" and "/<0xFF>"
ListableKeys ==
    { <<47, 97>>, <<47, 47, 97>>, <<47, 97, 47, 97>>, <<47, 98>>, <<47>>,
      <<47, 46, 46, 47, 97>>, <<47, 255>> }

\* the root and the output directory exist, the output directory is empty
InitFs == [dirs |-> {<<>>, <<<<111>>>>}, files |-> <<>>]

NoResult == [kind |-> "none", stage |-> "none", task |-> 0]
OkResult == [kind |-> "ok", stage |-> "none", task |-> 0]
ErrResult(stage, t) == [kind |-> "err", stage |-> stage, task |-> t]

Init ==
    /\ pc = "spawn_ouger"
    /\ result = NoResult
    /\ ouger_command = "NotStarted"
    /\ killRes = "none"
    /\ \E S \in SUBSET ListableKeys :
          /\ Cardinality(S) <= MaxKeys
          /\ etcd = [k \in S |-> "X"]
    /\ calls = [connect |-> 0, list |-> 0]
    /\ get_response = <<>>
    /\ tasks = <<>>
    /\ fs = InitFs
    /\ pathKey = <<>>
    /\ pathOut = <<>>
    /\ limits = <<>>

\* --------------------------------------------------------- main_internal
\* Command::new("ouger_server").spawn()?  kill_on_drop is not set on the
\* Command: dropping the Child on a later `?` leaves the process running.
\* variant that goes on to the store although the launch failed
PcAfterSpawnIgnoringError(ok) == "connect"

PcAfterSpawn(ok) == IF ok THEN "connect" ELSE "returned"

SpawnOuger ==
    /\ pc = "spawn_ouger"
    /\ \E ok \in BOOLEAN :
          /\ ouger_command' = IF ok THEN "Running" ELSE "SpawnFailed"
          /\ pc' = PcAfterSpawn(ok)
          /\ result' = IF ok THEN result ELSE ErrResult("launch", 0)
    /\ UNCHANGED <<killRes, etcd, calls, get_response, tasks, fs, pathKey, pathOut, limits>>

\* EtcdClient::connect(..).await.context("connecting to etcd")?
Connect ==
    /\ pc = "connect"
    /\ calls' = [calls EXCEPT !.connect = @ + 1]
    /\ \E ok \in BOOLEAN :
          /\ pc' = IF ok THEN "list" ELSE "returned"
          /\ result' = IF ok THEN result ELSE ErrResult("connect", 0)
    /\ UNCHANGED <<ouger_command, killRes, etcd, get_response, tasks, fs,
                   pathKey, pathOut, limits>>

\* the keys the store holds, in the store's order
StoredKeys == SortedKeys({k \in DOMAIN etcd : etcd[k] # NoValue})

\* client.kv_client().get("/", prefix, keys only).await?
List ==
    /\ pc = "list"
    /\ calls' = [calls EXCEPT !.list = @ + 1]
    /\ \E ok \in BOOLEAN :
          /\ pc' = IF ok THEN "key_str" ELSE "returned"
          /\ get_response' = IF ok THEN StoredKeys ELSE get_response
          /\ result' = IF ok THEN result ELSE ErrResult("list", 0)
    /\ UNCHANGED <<ouger_command, killRes, etcd, tasks, fs, pathKey, pathOut, limits>>

\* where the run goes once n tasks are spawned: the join loop, or past it
\* variant that stops the decoder without joining the tasks
PcAfterSpawnLoopNoJoin(n) == "kill"

PcAfterSpawnLoop(n) == IF n = 0 THEN "kill" ELSE "await"

\* kvs().iter().map(|k| Ok(k.key_str()?.to_string())).collect()?
KeyStr ==
    /\ pc = "key_str"
    /\ IF \A i \in 1..Len(get_response) : KeyStrOk(get_response[i])
       THEN /\ pc' = IF Len(get_response) = 0 THEN PcAfterSpawnLoop(0)
                     ELSE "spawn_tasks"
            /\ result' = result
       ELSE /\ pc' = "returned"
            /\ result' = ErrResult("key_str", 0)
    /\ UNCHANGED <<ouger_command, killRes, etcd, calls, get_response, tasks,
                   fs, pathKey, pathOut, limits>>

\* no response of the decoder has arrived yet
NoResponse == [pending |-> TRUE]

\* a get_key future as tokio::spawn receives it
NewTask(key) ==
    [key |-> key, pc |-> "get", value |-> "unfetched", resp |-> NoResponse,
     decoded |-> <<>>, sentIn |-> "none", output_file |-> <<>>, err |-> "none",
     nGet |-> 0, nDecode |-> 0, nMkdir |-> 0, nWrite |-> 0]

\* for key in keys { tasks.push(tokio::spawn(get_key(..))) }
SpawnTask ==
    /\ pc = "spawn_tasks"
    /\ Len(tasks) < Len(get_response)
    /\ tasks' = Append(tasks, NewTask(get_response[Len(tasks) + 1]))
    /\ pc' = IF Len(tasks) + 1 = Len(get_response)
             THEN PcAfterSpawnLoop(Len(tasks) + 1) ELSE pc
    /\ UNCHANGED <<result, ouger_command, killRes, etcd, calls, get_response,
                   fs, pathKey, pathOut, limits>>

\* the first task, in spawn order, that is not known to have succeeded
\* variant that picks up a failure wherever it is in the spawn order
AwaitedAnyFailure ==
    IF \E j \in 1..Len(tasks) : tasks[j].pc = "failed"
    THEN CHOOSE j \in 1..Len(tasks) :
            /\ tasks[j].pc = "failed"
            /\ \A i \in (j + 1)..Len(tasks) : tasks[i].pc # "failed"
    ELSE CHOOSE j \in 1..(Len(tasks) + 1) :
            /\ \A i \in 1..(j - 1) : tasks[i].pc = "done"
            /\ j <= Len(tasks) => tasks[j].pc # "done"

Awaited == CHOOSE j \in 1..(Len(tasks) + 1) :
              /\ \A i \in 1..(j - 1) : tasks[i].pc = "done"
              /\ j <= Len(tasks) => tasks[j].pc # "done"

\* dropping the Runtime drops every task that is suspended at an await
\* variant that keeps the suspended tasks, which are polled no more
RuntimeDropKeepsTasks(ts) == ts

RuntimeDrop(ts) ==
    [i \in 1..Len(ts) |->
        IF ts[i].pc \in {"get", "decode"} THEN [ts[i] EXCEPT !.pc = "cancelled"]
        ELSE ts[i]]

\* what a failed join does to the other tasks: nothing
\* variant that aborts the tasks still suspended
TasksAbortedOnFailedJoin(ts) == RuntimeDrop(ts)

TasksAfterFailedJoin(ts) == ts

\* for task in tasks { task.await??; }: the join that fails. No task panics
\* (parent() of a path under OutputDir is never None), so the JoinError of
\* the outer `?` does not occur and the error is the task's own.
AwaitFailed ==
    /\ pc = "await"
    /\ Awaited <= Len(tasks)
    /\ tasks[Awaited].pc = "failed"
    /\ pc' = "returned"
    /\ result' = ErrResult("task", Awaited)
    /\ tasks' = TasksAfterFailedJoin(tasks)
    /\ UNCHANGED <<ouger_command, killRes, etcd, calls, get_response, fs,
                   pathKey, pathOut, limits>>

\* for task in tasks { task.await??; }: every join succeeded
AwaitAllDone ==
    /\ pc = "await"
    /\ Awaited = Len(tasks) + 1
    /\ pc' = "kill"
    /\ UNCHANGED <<result, ouger_command, killRes, etcd, calls, get_response,
                   tasks, fs, pathKey, pathOut, limits>>

\* ouger_command.kill().await.context("killing ouger server")?; Ok(())
\* variant that ignores a failed kill
ResultAfterKillIgnoringError(ok) == OkResult

ResultAfterKill(ok) == IF ok THEN OkResult ELSE ErrResult("kill", 0)

Kill ==
    /\ pc = "kill"
    /\ \E ok \in BOOLEAN :
          /\ killRes' = IF ok THEN "ok" ELSE "err"
          /\ result' = ResultAfterKill(ok)
    /\ ouger_command' = "Stopped"
    /\ pc' = "returned"
    /\ UNCHANGED <<etcd, calls, get_response, tasks, fs, pathKey, pathOut, limits>>

\* ------------------------------------------------------------------ main
\* block_on returns and the Runtime is dropped: tasks suspended at an await
\* are dropped, a task in the middle of a poll runs to its next await
MainReturn ==
    /\ pc = "returned"
    /\ pc' = "shutdown"
    /\ tasks' = RuntimeDrop(tasks)
    /\ UNCHANGED <<result, ouger_command, killRes, etcd, calls, get_response,
                   fs, pathKey, pathOut, limits>>

\* the runtime's workers have stopped: main returns, the process exits
ProcessExit ==
    /\ pc = "shutdown"
    /\ \A i \in 1..Len(tasks) : tasks[i].pc \in {"done", "failed", "cancelled"}
    /\ pc' = "exited"
    /\ UNCHANGED <<result, ouger_command, killRes, etcd, calls, get_response,
                   tasks, fs, pathKey, pathOut, limits>>

\* ---------------------------------------------------------------- get_key
\* the task may be polled: the runtime has not been shut down
Polled(i) == i \in 1..Len(tasks) /\ pc \notin {"shutdown", "exited"}

\* if let Some(value) = get_result.kvs().first() { ouger(..) } ; Ok(())
\* variant that sends the value of a missing key to the decoder as well
TaskAfterGetNoSkip(t, v) ==
    [t EXCEPT !.value = v, !.nGet = @ + 1, !.pc = "decode",
              !.nDecode = @ + 1, !.sentIn = ouger_command]

TaskAfterGet(t, v) ==
    IF v = NoValue
    THEN [t EXCEPT !.value = v, !.nGet = @ + 1, !.pc = "done"]
    ELSE [t EXCEPT !.value = v, !.nGet = @ + 1, !.pc = "decode",
                   !.nDecode = @ + 1, !.sentIn = ouger_command]

\* .context("during etcd get")?: a failed get ends the task with the error
\* variant that issues the get again
TaskAfterGetErrorRetry(t) == [t EXCEPT !.nGet = @ + 1]

TaskAfterGetError(t) ==
    [t EXCEPT !.nGet = @ + 1, !.pc = "failed", !.err = "get"]

\* what a get of key k does to the store: it is a read
\* variant that consumes the key
StoreAfterGetConsuming(store, k) == [store EXCEPT ![k] = NoValue]

StoreAfterGet(store, k) == store

\* client.kv_client().get(key, None).await.context("during etcd get")?
GetReturn(i) ==
    /\ Polled(i)
    /\ tasks[i].pc = "get"
    /\ \E ok \in BOOLEAN :
          tasks' = [tasks EXCEPT ![i] =
                      IF ok THEN TaskAfterGet(@, etcd[@.key])
                      ELSE TaskAfterGetError(@)]
    /\ etcd' = StoreAfterGet(etcd, tasks[i].key)
    /\ UNCHANGED <<pc, result, ouger_command, killRes, calls,
                   get_response, fs, pathKey, pathOut, limits>>

\* what the decoder may answer: whether the request was answered at all,
\* whether the status is a success, whether a content length is given
OugerResponses ==
    { [sent |-> FALSE, success |-> FALSE, content_length |-> FALSE],
      [sent |-> TRUE, success |-> FALSE, content_length |-> TRUE],
      [sent |-> TRUE, success |-> TRUE, content_length |-> FALSE],
      [sent |-> TRUE, success |-> TRUE, content_length |-> TRUE] }

\* ouger(): send()?, ensure!(is_success), ensure!(content_length.is_some())
\* variant without the status check
OugerNoStatusCheck(rsp, v) ==
    IF ~rsp.sent THEN [ok |-> FALSE, body |-> <<>>]
    ELSE IF ~rsp.content_length THEN [ok |-> FALSE, body |-> <<>>]
    ELSE [ok |-> TRUE, body |-> OugerDecode(v)]

Ouger(rsp, v) ==
    IF ~rsp.sent THEN [ok |-> FALSE, body |-> <<>>]
    ELSE IF ~rsp.success THEN [ok |-> FALSE, body |-> <<>>]
    ELSE IF ~rsp.content_length THEN [ok |-> FALSE, body |-> <<>>]
    ELSE [ok |-> TRUE, body |-> OugerDecode(v)]

\* ouger("decode", raw_etcd_value).await.context(..)?  and the join of the
\* output path
DecodeReturn(i) ==
    /\ Polled(i)
    /\ tasks[i].pc = "decode"
    /\ \E rsp \in OugerResponses :
          LET r == Ouger(rsp, tasks[i].value)
          IN  tasks' = [tasks EXCEPT ![i] =
                          IF r.ok
                          THEN [@ EXCEPT !.resp = rsp, !.decoded = r.body,
                                         !.output_file = OutputFile(tasks[i].key),
                                         !.pc = "mkdir"]
                          ELSE [@ EXCEPT !.resp = rsp, !.pc = "failed",
                                         !.err = "decode"]]
    /\ UNCHANGED <<pc, result, ouger_command, killRes, etcd, calls,
                   get_response, fs, pathKey, pathOut, limits>>

\* std::fs::create_dir_all(output_file.parent().unwrap())?
CreateDir(i) ==
    /\ i \in 1..Len(tasks)
    /\ tasks[i].pc = "mkdir"
    /\ \E io_ok \in BOOLEAN :
          LET r == CreateDirAll(fs, ParentComps(Components(tasks[i].output_file)))
          IN  /\ fs' = IF io_ok THEN r.fs ELSE fs
              /\ tasks' = [tasks EXCEPT ![i] =
                             IF io_ok /\ r.err = "none"
                             THEN [@ EXCEPT !.nMkdir = @ + 1, !.pc = "write"]
                             ELSE [@ EXCEPT !.nMkdir = @ + 1, !.pc = "failed",
                                            !.err = "fs"]]
    /\ UNCHANGED <<pc, result, ouger_command, killRes, etcd, calls,
                   get_response, pathKey, pathOut, limits>>

\* std::fs::write(output_file, decoded_value)?; Ok(())
WriteFile(i) ==
    /\ i \in 1..Len(tasks)
    /\ tasks[i].pc = "write"
    /\ \E io_ok \in BOOLEAN :
          LET r == FsWrite(fs, tasks[i].output_file, tasks[i].decoded)
          IN  /\ fs' = IF io_ok THEN r.fs ELSE fs
              /\ tasks' = [tasks EXCEPT ![i] =
                             IF io_ok /\ r.err = "none"
                             THEN [@ EXCEPT !.nWrite = @ + 1, !.pc = "done"]
                             ELSE [@ EXCEPT !.nWrite = @ + 1, !.pc = "failed",
                                            !.err = "fs"]]
    /\ UNCHANGED <<pc, result, ouger_command, killRes, etcd, calls,
                   get_response, pathKey, pathOut, limits>>

\* ------------------------------------------------------------ environment
\* Other clients of the store act between the listing and a key's get; what
\* they do to a key before the listing or after its get is not seen by the
\* run. When the run starts every stored key holds "X".
\* a listed key whose get is still in flight
InFlight(k) ==
    /\ pc \in {"spawn_tasks", "await"}
    /\ \E i \in 1..Len(tasks) : tasks[i].key = k /\ tasks[i].pc = "get"

\* another client deletes a key between the listing and the get
EnvDelete(k) ==
    /\ InFlight(k)
    /\ etcd[k] # NoValue
    /\ etcd' = [etcd EXCEPT ![k] = NoValue]
    /\ UNCHANGED <<pc, result, ouger_command, killRes, calls, get_response,
                   tasks, fs, pathKey, pathOut, limits>>

\* another client overwrites a key between the listing and the get
EnvPut(k) ==
    /\ InFlight(k)
    /\ etcd[k] = "X"
    /\ etcd' = [etcd EXCEPT ![k] = "Y"]
    /\ UNCHANGED <<pc, result, ouger_command, killRes, calls, get_response,
                   tasks, fs, pathKey, pathOut, limits>>

Next ==
    \/ SpawnOuger
    \/ Connect
    \/ List
    \/ KeyStr
    \/ SpawnTask
    \/ AwaitFailed
    \/ AwaitAllDone
    \/ Kill
    \/ MainReturn
    \/ ProcessExit
    \/ \E i \in 1..MaxKeys : GetReturn(i)
    \/ \E i \in 1..MaxKeys : DecodeReturn(i)
    \/ \E i \in 1..MaxKeys : CreateDir(i)
    \/ \E i \in 1..MaxKeys : WriteFile(i)
    \/ \E k \in ListableKeys : EnvDelete(k)
    \/ \E k \in ListableKeys : EnvPut(k)

Spec == Init /\ [][Next]_vars

\* the steps of the run and of what it waits for: the store, the decoder,
\* the filesystem and the runtime; the other clients of the store excluded
RunNext ==
    \/ SpawnOuger
    \/ Connect
    \/ List
    \/ KeyStr
    \/ SpawnTask
    \/ AwaitFailed
    \/ AwaitAllDone
    \/ Kill
    \/ MainReturn
    \/ ProcessExit
    \/ \E i \in 1..MaxKeys : GetReturn(i)
    \/ \E i \in 1..MaxKeys : DecodeReturn(i)
    \/ \E i \in 1..MaxKeys : CreateDir(i)
    \/ \E i \in 1..MaxKeys : WriteFile(i)

\* every call eventually returns and the runtime keeps polling ready tasks
SpecLive == Init /\ [][Next]_vars /\ WF_vars(RunNext)

\* ---------------------------------------------------- the path derivation
\* byte strings over B of length n
RECURSIVE BytesOfLen(_, _)
BytesOfLen(B, n) ==
    IF n = 0 THEN {<<>>}
    ELSE {Append(s, b) : s \in BytesOfLen(B, n - 1), b \in B}

\* the keys a prefix listing of "/" can return: they start with '/'
PathKeys ==
    UNION {{<<Slash>> \o s : s \in BytesOfLen(KeyBytes, n)} : n \in 0..(MaxKeyLen - 1)}

InitPath ==
    /\ pc = "get_key"
    /\ result = NoResult
    /\ ouger_command = "Running"
    /\ killRes = "none"
    /\ etcd = <<>>
    /\ calls = [connect |-> 1, list |-> 1]
    /\ get_response = <<>>
    /\ tasks = <<>>
    /\ fs = InitFs
    /\ pathKey \in PathKeys
    /\ pathOut = <<>>
    /\ limits = <<>>

\* let output_file = output_dir.join(key.trim_start_matches('/'))
DerivePath ==
    /\ pc = "get_key"
    /\ pathOut = <<>>
    /\ pathOut' = OutputFile(pathKey)
    /\ pc' = "derived"
    /\ UNCHANGED <<result, ouger_command, killRes, etcd, calls, get_response,
                   tasks, fs, pathKey, limits>>

NextPath == DerivePath

SpecPath == InitPath /\ [][NextPath]_vars

\* ------------------------------------------------- the open-file limit
\* new_limit: the soft limit becomes the hard limit
\* variant with the two fields exchanged
NewLimitSwapped(current) ==
    [rlim_cur |-> current.rlim_max, rlim_max |-> current.rlim_cur]

NewLimit(current) ==
    [rlim_cur |-> current.rlim_max, rlim_max |-> current.rlim_max]

\* setrlimit(RLIMIT_NOFILE) of an unprivileged process: the soft limit may
\* not exceed the hard limit, the hard limit may not be raised
SetRlimit(old, new) ==
    IF new.rlim_cur > new.rlim_max THEN [err |-> "EINVAL", lim |-> old]
    ELSE IF new.rlim_max > old.rlim_max THEN [err |-> "EPERM", lim |-> old]
    ELSE [err |-> "none", lim |-> new]

\* the limits in force: what getrlimit(RLIMIT_NOFILE) fills in
CurrentLimit ==
    [rlim_cur |-> limits[Len(limits)].rlim_cur,
     rlim_max |-> limits[Len(limits)].rlim_max]

InitLimit ==
    /\ pc = "limit"
    /\ result = NoResult
    /\ ouger_command = "NotStarted"
    /\ killRes = "none"
    /\ etcd = <<>>
    /\ calls = [connect |-> 0, list |-> 0]
    /\ get_response = <<>>
    /\ tasks = <<>>
    /\ fs = InitFs
    /\ pathKey = <<>>
    /\ pathOut = <<>>
    /\ \E hard \in 0..MaxLimit : \E soft \in 0..hard :
          limits = <<[rlim_cur |-> soft, rlim_max |-> hard, res |-> "start"]>>

\* set_max_open_files_limit(): getrlimit, then setrlimit(new_limit)
SetMaxOpenFilesLimit ==
    /\ pc = "limit"
    /\ Len(limits) <= MaxLimitCalls
    /\ LET r == SetRlimit(CurrentLimit, NewLimit(CurrentLimit))
       IN  limits' = Append(limits,
                        [rlim_cur |-> r.lim.rlim_cur, rlim_max |-> r.lim.rlim_max,
                         res |-> IF r.err = "none" THEN "ok" ELSE "err"])
    /\ UNCHANGED <<pc, result, ouger_command, killRes, etcd, calls,
                   get_response, tasks, fs, pathKey, pathOut>>

NextLimit == SetMaxOpenFilesLimit

SpecLimit == InitLimit /\ [][NextLimit]_vars

\* ------------------------------------------------------------- properties
Returned == pc \in {"returned", "shutdown", "exited"}
Launched == ouger_command \in {"Running", "Stopped"}
TaskIds == 1..Len(tasks)

\* the tasks whose get found a value
Fetched == {i \in TaskIds : tasks[i].value \in Values}

\* the location a path names in the current filesystem
FileLoc(path) ==
    LET cs == KernelComps(path)
    IN  Append(Walk(fs, <<>>, ParentComps(cs)).loc, cs[Len(cs)])

\* C1: once the decoder was launched, no run returns without having
\* attempted to kill it, whichever way the run ends.
C1_KillOnEveryExit == (Returned /\ Launched) => killRes # "none"

\* C2: after a successful run the files are in 1:1 correspondence with the
\* listed keys that still had a value when fetched: one file per such key,
\* at the path derived from it, and no other file.
C2_OneFilePerFetchedKey ==
    (pc = "exited" /\ result.kind = "ok") =>
        /\ \A i \in Fetched : FileLoc(tasks[i].output_file) \in DOMAIN fs.files
        /\ Cardinality(DOMAIN fs.files) = Cardinality(Fetched)

\* C3: the destination paths computed by the tasks of two distinct listed
\* keys are distinct, so no two tasks ever write the same path.
C3_DisjointOutputPaths ==
    \A i \in TaskIds : \A j \in TaskIds :
        (i # j /\ tasks[i].output_file # <<>> /\ tasks[j].output_file # <<>>)
            => tasks[i].output_file # tasks[j].output_file

C5_MissingKeyIsSkipped ==
    /\ \A i \in TaskIds :
          tasks[i].value = NoValue =>
              /\ tasks[i].pc = "done"
              /\ tasks[i].err = "none"
              /\ tasks[i].nDecode = 0
              /\ tasks[i].nMkdir = 0
              /\ tasks[i].nWrite = 0
    /\ result.stage = "task" => tasks[result.task].value # NoValue

C5_Witness ==
    /\ pc = "exited"
    /\ result.kind = "ok"
    /\ \E i \in TaskIds : tasks[i].value = NoValue
    /\ \E i \in TaskIds : tasks[i].value \in Values /\ tasks[i].nWrite = 1

\* C6: if launching the decoder fails, the run fails with the launch error
\* and connects to no store, lists nothing, spawns no task, writes nothing.
C6_LaunchFailureStopsTheRun ==
    ouger_command = "SpawnFailed" =>
        /\ Returned
        /\ result = ErrResult("launch", 0)
        /\ calls.connect = 0
        /\ calls.list = 0
        /\ get_response = <<>>
        /\ tasks = <<>>
        /\ fs = InitFs

C6_Witness ==
    /\ pc = "exited"
    /\ ouger_command = "SpawnFailed"
    /\ DOMAIN etcd # {}

\* the responses the decode call accepts: answered, success status, length
Accepted(rsp) == rsp.sent /\ rsp.success /\ rsp.content_length

\* the tasks whose decode call got a response it does not accept
DecodeFailed ==
    {i \in TaskIds : tasks[i].resp # NoResponse /\ ~Accepted(tasks[i].resp)}

\* C7: a task whose decode call fails (no connection, non-success status,
\* no content length) fails without creating a directory or writing a file,
\* the run never returns success, and the files the tasks that finished
\* wrote are still there.
C7_DecodeFailureFailsTheRun ==
    /\ \A i \in DecodeFailed :
          /\ tasks[i].pc = "failed"
          /\ tasks[i].err = "decode"
          /\ tasks[i].nMkdir = 0
          /\ tasks[i].nWrite = 0
    /\ DecodeFailed # {} =>
          /\ result.kind # "ok"
          /\ Returned => result.kind = "err"
          /\ \A j \in Fetched :
                tasks[j].pc = "done" =>
                    FileLoc(tasks[j].output_file) \in DOMAIN fs.files

C7_Witness ==
    /\ pc = "exited"
    /\ result.kind = "err"
    /\ \E i \in DecodeFailed : tasks[i].resp.sent /\ ~tasks[i].resp.success
    /\ \E j \in Fetched : tasks[j].pc = "done"
    /\ DOMAIN fs.files # {}

\* C8: every decode request is sent while the decoder handle is Running:
\* no task exists before the launch, and once kill was invoked every task
\* has finished.
C8_DecodeOnlyWhileRunning ==
    /\ \A i \in TaskIds : tasks[i].nDecode > 0 => tasks[i].sentIn = "Running"
    /\ ouger_command \in {"NotStarted", "SpawnFailed"} => tasks = <<>>
    /\ ouger_command = "Stopped" => \A i \in TaskIds : tasks[i].pc = "done"

C8_Witness ==
    /\ ouger_command = "Stopped"
    /\ Len(tasks) > 1
    /\ \A i \in TaskIds : tasks[i].nDecode = 1 /\ tasks[i].sentIn = "Running"

\* C9 as stated: a kill that fails after all tasks succeeded is not fatal,
\* the run still returns success.
C9_KillFailureIsNotFatal == killRes = "err" => result.kind = "ok"

\* C9 amended: a kill that fails after all tasks succeeded makes the run
\* return the kill error, with every file written; the run returns success
\* only if the kill succeeded.
C9_KillFailureFailsTheRun ==
    /\ killRes = "err" =>
          /\ result = ErrResult("kill", 0)
          /\ \A i \in TaskIds : tasks[i].pc = "done"
    /\ result.kind = "ok" => killRes = "ok"

C9_Witness ==
    /\ pc = "exited"
    /\ killRes = "err"
    /\ result.stage = "kill"
    /\ DOMAIN fs.files # {}

\* the number of leading '/' of a key
LeadingSlashes(k) ==
    CHOOSE n \in 0..Len(k) :
        /\ \A i \in 1..n : k[i] = Slash
        /\ n < Len(k) => k[n + 1] # Slash

C11_FileHoldsDecodedFetchedValue ==
    \A i \in Fetched :
        tasks[i].pc = "done" =>
            /\ FileLoc(tasks[i].output_file) \in DOMAIN fs.files
            /\ fs.files[FileLoc(tasks[i].output_file)] = OugerDecode(tasks[i].value)

\* C12: nothing is retried: the store is connected to and listed at most
\* once, the tasks are the listed keys, one each and in order, every task
\* issues its get, its decode request, its directory creation and its write
\* at most once, and a task that failed at a stage attempted that stage once
\* and no later stage.
C12_NothingIsRetried ==
    /\ calls.connect <= 1
    /\ calls.list <= 1
    /\ Len(tasks) <= Len(get_response)
    /\ pc \in {"await", "kill"} => Len(tasks) = Len(get_response)
    /\ \A i \in TaskIds :
          /\ tasks[i].key = get_response[i]
          /\ tasks[i].nGet <= 1
          /\ tasks[i].nDecode <= 1
          /\ tasks[i].nMkdir <= 1
          /\ tasks[i].nWrite <= 1
          /\ tasks[i].pc = "failed" =>
                /\ tasks[i].err = "get" =>
                      tasks[i].nGet = 1 /\ tasks[i].nDecode = 0
                /\ tasks[i].err = "decode" =>
                      tasks[i].nDecode = 1 /\ tasks[i].nMkdir = 0
                /\ tasks[i].err = "fs" =>
                      tasks[i].nMkdir = 1 /\ tasks[i].nMkdir + tasks[i].nWrite <= 2
                /\ tasks[i].nWrite = 1 => tasks[i].err = "fs"

C12_Witness ==
    /\ pc = "exited"
    /\ \E i \in TaskIds : tasks[i].pc = "failed" /\ tasks[i].err = "get"
    /\ \E i \in TaskIds : tasks[i].pc = "done" /\ tasks[i].nWrite = 1

\* C13: every call of the limit raise succeeds, sets the soft limit to the
\* hard limit the process started with and leaves the hard limit as it was,
\* also when the soft limit already equals the hard limit; a second call
\* leaves the limits of the first.
C13_RaiseIsIdempotent ==
    \A n \in 2..Len(limits) :
        /\ limits[n].res = "ok"
        /\ limits[n].rlim_cur = limits[1].rlim_max
        /\ limits[n].rlim_max = limits[1].rlim_max
        /\ n > 2 => /\ limits[n].rlim_cur = limits[n - 1].rlim_cur
                    /\ limits[n].rlim_max = limits[n - 1].rlim_max

C13_Witness ==
    /\ Len(limits) = 3
    /\ limits[1].rlim_cur < limits[1].rlim_max
    /\ limits[2].rlim_cur = limits[2].rlim_max
    /\ limits[3].res = "ok"

\* C14: the run only reads the store: a step that changes the store's
\* contents is a step of another client, never a step of the run.
C14_StoreIsOnlyRead ==
    [][etcd' # etcd =>
          UNCHANGED <<pc, result, ouger_command, killRes, calls, get_response,
                      tasks, fs>>]_vars

C14_Witness ==
    /\ pc = "exited"
    /\ calls.list = 1
    /\ Len(tasks) > 1
    /\ \A i \in TaskIds : tasks[i].nGet = 1

\* C15: within a task the order is fetch, decode, write: a decode request
\* is sent only after the get returned a value, a directory is created and
\* a file written only after the decoder's response was accepted, and the
\* write follows the directory creation.
C15_FetchThenDecodeThenWrite ==
    \A i \in TaskIds :
        /\ tasks[i].nDecode > 0 =>
              tasks[i].nGet = 1 /\ tasks[i].value \in Values
        /\ tasks[i].nMkdir > 0 =>
              /\ tasks[i].nDecode = 1
              /\ tasks[i].resp # NoResponse
              /\ Accepted(tasks[i].resp)
              /\ tasks[i].decoded = OugerDecode(tasks[i].value)
        /\ tasks[i].nWrite > 0 => tasks[i].nMkdir = 1

C15_Witness ==
    \E i \in TaskIds :
        tasks[i].pc = "done" /\ tasks[i].nDecode = 1 /\ tasks[i].nWrite = 1

\* a listed key holds a byte that is not ASCII
ListedInvalidKey ==
    \E i \in 1..Len(get_response) :
        \E j \in 1..Len(get_response[i]) : get_response[i][j] >= AsciiLimit

\* C16: if a listed key is not valid UTF-8 the run fails with the key
\* conversion error and no task is ever spawned: no get, no decode request,
\* no directory and no file for any key.
C16_InvalidKeyFailsBeforeSpawn ==
    ListedInvalidKey =>
        /\ tasks = <<>>
        /\ fs = InitFs
        /\ pc \in {"key_str", "returned", "shutdown", "exited"}
        /\ Returned => result = ErrResult("key_str", 0)

C16_Witness ==
    /\ pc = "exited"
    /\ ListedInvalidKey
    /\ \E i \in 1..Len(get_response) :
          \A j \in 1..Len(get_response[i]) : get_response[i][j] < AsciiLimit

\* C17: the failure the run returns is the one of the failed task that is
\* earliest in listing order: the task it names has failed and every task
\* listed before it has finished successfully, whatever failed later in the
\* list.
C17_EarliestListedFailureIsReturned ==
    result.stage = "task" =>
        /\ result.task \in TaskIds
        /\ tasks[result.task].pc = "failed"
        /\ \A i \in 1..(result.task - 1) : tasks[i].pc = "done"

C17_Witness ==
    /\ result = ErrResult("task", 1)
    /\ Len(tasks) = 2
    /\ tasks[2].pc = "failed"
    /\ tasks[2].err # tasks[1].err

\* C18: when the run returns success, and already when it stops the
\* decoder, every listed key has a task and every task has finished; after
\* a successful return the filesystem does not change.
C18_SuccessOnlyAfterEveryTask ==
    /\ [](  (result.kind = "ok" \/ killRes # "none") =>
              /\ Len(tasks) = Len(get_response)
              /\ \A i \in TaskIds : tasks[i].pc = "done")
    /\ [][result.kind = "ok" => fs' = fs]_vars

C18_Witness ==
    /\ pc = "exited"
    /\ result.kind = "ok"
    /\ Cardinality(DOMAIN fs.files) = 2

\* the location lies below the output directory
InsideOutputDir(loc) ==
    LET out == Components(OutputDir)
    IN  Len(loc) > Len(out) /\ SubSeq(loc, 1, Len(out)) = out

\* C20: every directory created and every file written lies inside the
\* output directory, whatever the listed keys.
C20_WritesStayInsideOutputDir ==
    \A loc \in DOMAIN fs.files \cup (fs.dirs \ InitFs.dirs) : InsideOutputDir(loc)

\* C19: if every call eventually returns and ready tasks keep being polled,
\* the run returns success or failure and the process exits, for every
\* listed key set; it does not wait forever on a task.
C19_RunTerminates == <>(pc = "exited" /\ result.kind \in {"ok", "err"})

C19_Witness ==
    /\ pc = "exited"
    /\ Len(tasks) > 1
    /\ result.kind \in {"ok", "err"}

====
